---- MODULE Spec2Model ----
(***************************************************************************)
(* Request orchestration and tiered storage of the Point-E servers:        *)
(* src/server.py (production: shared-secret guard, GCS with local          *)
(* fallback, per-user catalog) and src/local_server.py (local files only). *)
(*                                                                         *)
(* Text is modelled as a sequence of one-character strings, so that        *)
(* split, lower, sanitising, prefix and suffix tests are computed as the   *)
(* code computes them.  A few opaque pieces of text that the code never    *)
(* looks into (a formatted timestamp, a uuid prefix, an md5 digest) are    *)
(* single elements of such a sequence.                                     *)
(***************************************************************************)
EXTENDS Integers, Sequences, FiniteSets, Bags, TLC

VARIABLES
    server,        \* "prod": src/server.py is the process, "local": src/local_server.py
    SECRET_KEY,    \* server.py:42, text read from the environment at import
    ENABLE_GCS,    \* server.py:39
    lifespan,      \* position of the startup hook: "Unloaded", "Done", "Failed"
    load_errors,   \* what raised during startup: sub-models, the client, the bucket
    text_sampler,  \* TRUE when the global is not None
    image_model,
    image_sampler,
    sdf_model,
    models_ready,
    gcs_client,    \* TRUE when the global is not None
    now,           \* the wall clock, [day, sec]: calendar day and second of the day
    gcs_blobs,     \* objects of the bucket: [name, created, content]
    local_files,   \* files of the local directory: [path, content]
    pending,       \* image requests suspended at `await file.read()`
    tasks,         \* a bag: the requests the event loop holds, each with its position
    last           \* the response to the latest request, with the calls it made

vars == <<server, SECRET_KEY, ENABLE_GCS, lifespan, load_errors, text_sampler, image_model,
          image_sampler, sdf_model, models_ready, gcs_client, now, gcs_blobs,
          local_files, pending, tasks, last>>

config == <<server, SECRET_KEY, ENABLE_GCS>>
gate == <<lifespan, load_errors, text_sampler, image_model, image_sampler, sdf_model,
          models_ready, gcs_client>>
storage == <<gcs_blobs, local_files>>

----------------------------------------------------------------------------
(* Bounds of the model *)

MaxTokLen == 2      \* longest secret and longest presented token
MaxStored == 1      \* file names held by both tiers together
MaxClock == 1       \* steps of the wall clock (a second or a day each)
MaxPending == 1     \* image requests suspended at the same time
MaxListed == 2      \* objects in the bucket when the catalog is studied
MaxTasks == 2       \* requests the event loop holds at the same time

----------------------------------------------------------------------------
(* Text *)

None == [isNone |-> TRUE, v |-> <<>>]
Some(s) == [isNone |-> FALSE, v |-> s]

\* Python truthiness of an Optional[str]: None and "" are falsy
Truthy(o) == ~o.isNone /\ o.v # <<>>

Bearer == <<"B", "e", "a", "r", "e", "r">>
bearer == <<"b", "e", "a", "r", "e", "r">>
BEARER == <<"B", "E", "A", "R", "E", "R">>
Basic == <<"B", "a", "s", "i", "c">>

\* str.lower() on the characters the model uses
LowerChar(c) ==
    CASE c = "B" -> "b"
      [] c = "E" -> "e"
      [] c = "A" -> "a"
      [] c = "R" -> "r"
      [] OTHER -> c

Lower(s) == [i \in 1..Len(s) |-> LowerChar(s[i])]

\* the one character of the model outside ASCII
NonAscii == {"é"}

IsAscii(s) == \A i \in 1..Len(s) : s[i] \notin NonAscii

\* index of the first blank of s, 0 when there is none
RECURSIVE FirstBlankFrom(_, _)
FirstBlankFrom(s, i) ==
    IF i > Len(s) THEN 0
    ELSE IF s[i] = " " THEN i
    ELSE FirstBlankFrom(s, i + 1)

FirstBlank(s) == FirstBlankFrom(s, 1)

\* s.split(" ", 1): one or two parts
Split1(s) ==
    LET i == FirstBlank(s)
    IN  IF i = 0 THEN <<s>> ELSE <<SubSeq(s, 1, i - 1), SubSeq(s, i + 1, Len(s))>>

\* a comparison that looks at the lengths only
compare_lengths(a, b) == IF Len(a) = Len(b) THEN "True" ELSE "False"

\* hmac.compare_digest on two str: TypeError unless both are ASCII
compare_digest(a, b) ==
    IF IsAscii(a) /\ IsAscii(b)
    THEN IF a = b THEN "True" ELSE "False"
    ELSE "TypeError"

\* a guard that admits every bearer token
verify_any_bearer(secret, authorization) ==
    LET parts == Split1(authorization.v)
    IN  IF secret = <<>> THEN "ValueError"
        ELSE IF ~Truthy(authorization) THEN "False"
        ELSE IF Len(parts) # 2 THEN "False"
        ELSE IF Lower(parts[1]) # bearer THEN "False"
        ELSE "True"

\* a guard that compares against the secret without asking whether one is
\* configured
verify_unconfigured(secret, authorization) ==
    LET parts == Split1(authorization.v)
    IN  IF ~Truthy(authorization) THEN "False"
        ELSE IF Len(parts) # 2 THEN "False"
        ELSE IF Lower(parts[1]) # bearer THEN "False"
        ELSE IF compare_digest(parts[2], secret) = "True" THEN "True"
        ELSE "False"

\* verify_secret_key: "True", "False", or "ValueError" when it raises
verify_secret_key(secret, authorization) ==
    LET parts == Split1(authorization.v)
    IN  IF secret = <<>> THEN "ValueError"
        ELSE IF ~Truthy(authorization) THEN "False"
        \* scheme, token = authorization.split(" ", 1): unpacking one part
        \* raises, and the bare except returns False
        ELSE IF Len(parts) # 2 THEN "False"
        ELSE IF Lower(parts[1]) # bearer THEN "False"
        \* a TypeError of compare_digest is caught by the bare except as well
        ELSE IF compare_digest(parts[2], secret) = "True" THEN "True"
        ELSE "False"

----------------------------------------------------------------------------
(* Names, paths and identities *)

Min(a, b) == IF a <= b THEN a ELSE b

Take(s, n) == SubSeq(s, 1, Min(n, Len(s)))

StartsWith(s, pre) == Len(pre) <= Len(s) /\ SubSeq(s, 1, Len(pre)) = pre

EndsWith(s, suf) ==
    Len(suf) <= Len(s) /\ SubSeq(s, Len(s) - Len(suf) + 1, Len(s)) = suf

\* Python's `sub in s`
Contains(s, sub) ==
    \E i \in 1..(Len(s) - Len(sub) + 1) : SubSeq(s, i, i + Len(sub) - 1) = sub

\* the characters of the model for which str.isalnum() is false
NotAlnum == {" ", "-", "_", "!", "/", "."}

IsSafeChar(c) == c \notin NotAlnum \/ c \in {" ", "-", "_"}

RECURSIVE RStrip(_)
RStrip(s) ==
    IF s # <<>> /\ s[Len(s)] = " " THEN RStrip(SubSeq(s, 1, Len(s) - 1)) ELSE s

SlugLen == 30
NameLen == 20

\* "".join(c for c in prompt if c.isalnum() or c in (' ', '-', '_')).rstrip()[:30]
safe_prompt(prompt) == Take(RStrip(SelectSeq(prompt, IsSafeChar)), SlugLen)

\* index of the last c of s, 0 when there is none
RECURSIVE LastIndexFrom(_, _, _)
LastIndexFrom(s, c, i) ==
    IF i = 0 THEN 0
    ELSE IF s[i] = c THEN i
    ELSE LastIndexFrom(s, c, i - 1)

LastIndexOf(s, c) == LastIndexFrom(s, c, Len(s))

\* os.path.basename
basename(path) == SubSeq(path, LastIndexOf(path, "/") + 1, Len(path))

\* os.path.splitext(name)[0]: the extension starts at the last dot of the last
\* path component, unless that dot leads the component
splitext_root(name) ==
    LET dot == LastIndexOf(name, ".")
    IN  IF dot > LastIndexOf(name, "/") + 1 THEN SubSeq(name, 1, dot - 1) ELSE name

\* Path(name).stem: the last component without its extension
path_stem(name) == splitext_root(basename(name))

mesh_ == <<"m", "e", "s", "h", "_">>
pointcloud_ == <<"p", "o", "i", "n", "t", "c", "l", "o", "u", "d", "_">>
from_ == <<"f", "r", "o", "m", "_">>
image == <<"i", "m", "a", "g", "e">>
dot_ply == <<".", "p", "l", "y">>
users_slash == <<"u", "s", "e", "r", "s", "/">>
user_ == <<"u", "s", "e", "r", "_">>
slash_download_slash == <<"/", "d", "o", "w", "n", "l", "o", "a", "d", "/">>
slash_gcs_slash == <<"/", "g", "c", "s", "/">>
local == <<"l", "o", "c", "a", "l">>

\* datetime.now().strftime('%Y%m%d_%H%M%S'): one opaque element per second
Timestamp(t) == <<"ts" \o ToString(t.day) \o "_" \o ToString(t.sec)>>

\* datetime.now().strftime('%Y/%m/%d')
DateFolder(t) == <<"Y", "/", "M", "/", "D" \o ToString(t.day)>>

\* hashlib.md5(...).hexdigest()[:8] of user agent, forwarded address and date:
\* one opaque element, named by the text that was hashed
Md5Hex8(user_agent, ip, day) == <<"md5:" \o user_agent \o ip \o ToString(day)>>

\* an identity that hashes the time of the call, not its date
generate_user_id_by_second(user_agent, ip, t) ==
    user_ \o <<"md5:" \o user_agent \o ip \o ToString(t.day) \o ":" \o ToString(t.sec)>>

generate_user_id(user_agent, ip, t) == user_ \o Md5Hex8(user_agent, ip, t.day)

\* a path outside the users/ folder
get_storage_path_flat(user_id, filename, t) ==
    user_id \o <<"/">> \o DateFolder(t) \o <<"/">> \o filename

get_storage_path(user_id, filename, t) ==
    users_slash \o user_id \o <<"/">> \o DateFolder(t) \o <<"/">> \o filename

----------------------------------------------------------------------------
(* The inference collaborator and the two storage tiers *)

\* what sample_batch_progressive / output_to_point_clouds may do: raise, or
\* return a point cloud
SampleOutcomes == {[ok |-> FALSE, points |-> 0], [ok |-> TRUE, points |-> 6]}

\* what marching_cubes_mesh may do: raise, or return a mesh
MeshOutcomes ==
    {[ok |-> FALSE, verts |-> 0, faces |-> 0], [ok |-> TRUE, verts |-> 4, faces |-> 2]}

\* the bytes of a PLY file, by what they encode
MeshPly(mesh) == [kind |-> "mesh", verts |-> mesh.verts, faces |-> mesh.faces]
PointCloudPly(pc) == [kind |-> "pointcloud", verts |-> pc.points, faces |-> 0]
Truncated == [kind |-> "truncated", verts |-> 0, faces |-> 0]

\* outcomes of one upload to the bucket and of one write to the local disk
GcsOutcomes == {"ok", "upload_failed", "sign_failed"}
LocalOutcomes == {"ok", "open_failed", "write_failed"}

\* writing an object or a file replaces what the same name held
PutBlob(blobs, name, content) ==
    {b \in blobs : b.name # name} \cup {[name |-> name, created |-> now, content |-> content]}

PutFile(files, path, content) ==
    {f \in files : f.path # path} \cup {[path |-> path, content |-> content]}

\* save_to_gcs: the signed URL, or None; the upload may have happened even
\* when None is returned (signing raised after upload_from_string)
save_to_gcs(content, storage_path, outcome) ==
    IF ~gcs_client
    THEN [url |-> None, blobs |-> gcs_blobs, put |-> "none"]
    ELSE CASE outcome = "ok" ->
                [url |-> Some(<<"signed-url">>),
                 blobs |-> PutBlob(gcs_blobs, storage_path, content), put |-> "ok"]
           [] outcome = "upload_failed" ->
                [url |-> None, blobs |-> gcs_blobs, put |-> "failed"]
           [] OTHER ->
                [url |-> None,
                 blobs |-> PutBlob(gcs_blobs, storage_path, content), put |-> "failed"]

\* a local save that returns its URL without writing the file
save_to_local_unwritten(content, filename, outcome) ==
    [raised |-> outcome # "ok", url |-> slash_download_slash \o filename,
     files |-> local_files, put |-> IF outcome = "ok" THEN "ok" ELSE "failed"]

\* save_to_local: the relative URL, or an exception; a failed write leaves
\* the file that open() created
save_to_local(content, filename, outcome) ==
    CASE outcome = "ok" ->
            [raised |-> FALSE, url |-> slash_download_slash \o filename,
             files |-> PutFile(local_files, filename, content), put |-> "ok"]
      [] outcome = "open_failed" ->
            [raised |-> TRUE, url |-> <<>>, files |-> local_files, put |-> "failed"]
      [] OTHER ->
            [raised |-> TRUE, url |-> <<>>,
             files |-> PutFile(local_files, filename, Truncated), put |-> "failed"]

\* a store that uploads a second time when the first upload gave no URL
StoreArtifactRetrying(content, user_id, filename, gput, lput) ==
    LET g == save_to_gcs(content, get_storage_path(user_id, filename, now), gput)
        l == save_to_local(content, filename, lput)
    IN  IF gcs_client /\ Truthy(g.url)
        THEN [raised |-> FALSE, file_url |-> slash_gcs_slash \o filename,
              download_url |-> g.url.v, blobs |-> g.blobs, files |-> local_files,
              gcs_put |-> g.put, local_put |-> "none", puts |-> <<"gcs">>]
        ELSE [raised |-> l.raised, file_url |-> l.url, download_url |-> l.url,
              blobs |-> g.blobs, files |-> l.files,
              gcs_put |-> g.put, local_put |-> l.put,
              puts |-> (IF gcs_client THEN <<"gcs", "gcs">> ELSE <<>>) \o <<"local">>]

\* "Try GCS first, fallback to local" of the production handlers; puts names
\* the tiers in the order the handler called them
StoreArtifact(content, user_id, filename, gput, lput) ==
    LET g == IF gcs_client
             THEN save_to_gcs(content, get_storage_path(user_id, filename, now), gput)
             ELSE [url |-> None, blobs |-> gcs_blobs, put |-> "none"]
        l == save_to_local(content, filename, lput)
    IN  IF Truthy(g.url)
        THEN [raised |-> FALSE, file_url |-> slash_gcs_slash \o filename,
              download_url |-> g.url.v, blobs |-> g.blobs, files |-> local_files,
              gcs_put |-> g.put, local_put |-> "none", puts |-> <<"gcs">>]
        ELSE [raised |-> l.raised, file_url |-> l.url, download_url |-> l.url,
              blobs |-> g.blobs, files |-> l.files,
              gcs_put |-> g.put, local_put |-> l.put,
              puts |-> (IF gcs_client THEN <<"gcs">> ELSE <<>>) \o <<"local">>]

\* save_mesh_locally of the local server: directory of the user, file named
\* by prompt and second
save_mesh_locally(content, user_id, prompt, lput) ==
    LET filename == mesh_ \o safe_prompt(prompt) \o <<"_">> \o Timestamp(now) \o dot_ply
        filepath == user_id \o <<"/">> \o filename
    IN  CASE lput = "ok" ->
                [raised |-> FALSE, filename |-> filename,
                 files |-> PutFile(local_files, filepath, content), put |-> "ok"]
          [] lput = "open_failed" ->
                [raised |-> TRUE, filename |-> filename, files |-> local_files,
                 put |-> "failed"]
          [] OTHER ->
                [raised |-> TRUE, filename |-> filename,
                 files |-> PutFile(local_files, filepath, Truncated), put |-> "failed"]

----------------------------------------------------------------------------
(* Responses *)

NoResponse ==
    [op |-> "none", status |-> 0, authorization |-> None, verified |-> "n/a",
     format |-> "", sampled |-> FALSE, meshed |-> FALSE, derived |-> FALSE,
     gcs_put |-> "none", local_put |-> "none", success |-> FALSE,
     file_url |-> <<>>, download_url |-> <<>>, user_id |-> <<>>,
     filename |-> <<>>, vertices |-> -1, faces |-> -1, expires_at |-> FALSE,
     models |-> <<>>, content |-> Truncated, body |-> "none",
     prompt |-> <<>>, grid_size |-> 32,
     uid |-> None, user_agent |-> "", xff |-> "", day |-> 0, puts |-> <<>>]

\* `except Exception as e: raise HTTPException(status_code=500, ...)` around a
\* handler body: whatever was raised inside, an HTTPException included,
\* leaves as status 500
CatchAll(raised_status) == 500

\* an exception no handler catches: the framework answers 500
Unhandled == 500

Result(resp, blobs, files) == [resp |-> resp, blobs |-> blobs, files |-> files]

Keep(resp) == Result(resp, gcs_blobs, local_files)

----------------------------------------------------------------------------
(* Handlers of the production server, src/server.py *)

\* a text guard that looks at the sampler only
TextReadyWithoutFlag == text_sampler

\* the guards of generate_from_text, generate_from_image, pointcloud_to_mesh
TextReady == models_ready /\ text_sampler
ImageReady == models_ready /\ image_sampler
MeshReady == models_ready /\ sdf_model

\* the body of a production handler from the point cloud on: mesh or PLY
\* text, file name, storage, response.  r carries what is known so far.
ProdFinish(r, pc, slug, format, user_id, request_id, mo, gput, lput) ==
    LET tail == <<"_">> \o Timestamp(now) \o <<"_", request_id>> \o dot_ply
        isMesh == format = <<"m", "e", "s", "h">>
        filename == (IF isMesh THEN mesh_ ELSE pointcloud_) \o slug \o tail
        content == IF isMesh THEN MeshPly(mo) ELSE PointCloudPly(pc)
        st == StoreArtifact(content, user_id, filename, gput, lput)
        stored == [r EXCEPT !.gcs_put = st.gcs_put, !.local_put = st.local_put,
                            !.filename = filename, !.content = content,
                            !.puts = st.puts]
    IN  IF isMesh /\ ~MeshReady
        THEN Keep([r EXCEPT !.status = CatchAll(503)])
        ELSE IF isMesh /\ ~mo.ok
        THEN Keep([r EXCEPT !.status = CatchAll(0), !.meshed = TRUE])
        ELSE IF st.raised
        THEN Result([stored EXCEPT !.status = CatchAll(0), !.meshed = isMesh],
                    st.blobs, st.files)
        ELSE Result([stored EXCEPT !.status = 200, !.meshed = isMesh,
                        !.success = TRUE, !.file_url = st.file_url,
                        !.download_url = st.download_url,
                        !.vertices = IF isMesh THEN mo.verts ELSE pc.points,
                        !.faces = IF isMesh THEN mo.faces ELSE 0,
                        !.expires_at = TRUE],
                    st.blobs, st.files)

\* POST /generate/text
prod_text_to_3d(authorization, prompt, uid, format, user_agent, xff, request_id, so, mo, gput, lput) ==
    LET v == verify_secret_key(SECRET_KEY, authorization)
        r0 == [NoResponse EXCEPT !.op = "text", !.authorization = authorization,
                                 !.verified = v]
        user_id == IF Truthy(uid) THEN uid.v ELSE generate_user_id(user_agent, xff, now)
        r1 == [r0 EXCEPT !.user_id = user_id, !.derived = ~Truthy(uid),
                         !.format = format]
    IN  IF v = "ValueError" THEN Keep([r0 EXCEPT !.status = Unhandled])
        ELSE IF v = "False" THEN Keep([r0 EXCEPT !.status = 401])
        ELSE IF ~TextReady THEN Keep([r1 EXCEPT !.status = CatchAll(503)])
        ELSE IF ~so.ok THEN Keep([r1 EXCEPT !.status = CatchAll(0), !.sampled = TRUE])
        ELSE ProdFinish([r1 EXCEPT !.sampled = TRUE], so, safe_prompt(prompt),
                        format, user_id, request_id, mo, gput, lput)

\* POST /generate/image up to `await file.read()`: a response, or the
\* suspended request
prod_image_begin(authorization, upload, format, uid, user_agent, xff) ==
    LET v == verify_secret_key(SECRET_KEY, authorization)
        r0 == [NoResponse EXCEPT !.op = "image", !.authorization = authorization,
                                 !.verified = v]
        user_id == IF Truthy(uid) THEN uid.v ELSE generate_user_id(user_agent, xff, now)
        r1 == [r0 EXCEPT !.user_id = user_id, !.derived = ~Truthy(uid),
                         !.format = format]
    IN  IF v = "ValueError" THEN [done |-> TRUE, resp |-> [r0 EXCEPT !.status = Unhandled]]
        ELSE IF v = "False" THEN [done |-> TRUE, resp |-> [r0 EXCEPT !.status = 401]]
        ELSE IF ~ImageReady
        THEN [done |-> TRUE, resp |-> [r0 EXCEPT !.status = CatchAll(503)]]
        ELSE [done |-> FALSE, resp |-> r1, upload |-> upload]

\* POST /generate/image after the read: decode, sample, mesh, store
prod_image_resume(task, decodes, request_id, so, mo, gput, lput) ==
    LET r == task.resp
        name == IF Truthy(task.upload) THEN task.upload.v ELSE image
        original_name == Take(splitext_root(name), NameLen)
    IN  IF ~decodes THEN Keep([r EXCEPT !.status = CatchAll(0)])
        ELSE IF ~ImageReady THEN Keep([r EXCEPT !.status = CatchAll(503)])
        ELSE IF ~so.ok THEN Keep([r EXCEPT !.status = CatchAll(0), !.sampled = TRUE])
        ELSE IF r.format = <<"m", "e", "s", "h">>
        THEN ProdFinish([r EXCEPT !.sampled = TRUE], so, from_ \o original_name,
                        r.format, r.user_id, request_id, mo, gput, lput)
        \* `pass`: the handler returns None, which the response model rejects
        ELSE Keep([r EXCEPT !.status = Unhandled, !.sampled = TRUE])

\* an entry that reports the whole object name as the filename
CatalogEntryFullName(b) ==
    [filename |-> b.name, path |-> b.name, created |-> b.created,
     type |-> IF Contains(b.name, mesh_) THEN "mesh" ELSE "pointcloud"]

\* GET /user/{user_id}/models: one entry per blob; the blobs are those under
\* the prefix of the user that end in .ply, as the backend enumerates them
CatalogEntry(b) ==
    [filename |-> basename(b.name), path |-> b.name, created |-> b.created,
     type |-> IF Contains(b.name, mesh_) THEN "mesh" ELSE "pointcloud"]

CatalogBlobs(user_id) ==
    {b \in gcs_blobs : StartsWith(b.name, users_slash \o user_id \o <<"/">>)
                       /\ EndsWith(b.name, dot_ply)}

\* order of two creation times, as their isoformat() texts compare
Later(t, u) == t.day > u.day \/ (t.day = u.day /\ t.sec > u.sec)

\* sorted(models, key=created, reverse=True): stable, so entries created at
\* the same time keep the order of the enumeration
RECURSIVE InsertDesc(_, _)
InsertDesc(sorted, e) ==
    IF sorted = <<>> THEN <<e>>
    ELSE IF Later(e.created, sorted[Len(sorted)].created)
         THEN InsertDesc(SubSeq(sorted, 1, Len(sorted) - 1), e) \o <<sorted[Len(sorted)]>>
         ELSE sorted \o <<e>>

RECURSIVE SortedDesc(_)
SortedDesc(entries) ==
    IF entries = <<>> THEN <<>>
    ELSE InsertDesc(SortedDesc(SubSeq(entries, 1, Len(entries) - 1)), entries[Len(entries)])

\* the orders in which the backend may enumerate a set of blobs
Enumerations(S) ==
    {q \in [1..Cardinality(S) -> S] : \A i, j \in 1..Cardinality(S) : i # j => q[i] # q[j]}

get_user_models(user_id, enumeration, lists) ==
    LET r == [NoResponse EXCEPT !.op = "list", !.user_id = user_id]
    IN  IF ~gcs_client THEN [r EXCEPT !.status = 503]
        ELSE IF ~lists THEN [r EXCEPT !.status = 500]
        ELSE [r EXCEPT !.status = 200,
                       !.models = SortedDesc([i \in 1..Len(enumeration) |->
                                                 CatalogEntry(enumeration[i])])]

\* GET /download/{filename}
prod_download(filename) ==
    LET r == [NoResponse EXCEPT !.op = "download", !.filename = filename]
    IN  IF \E f \in local_files : f.path = filename
        THEN [r EXCEPT !.status = 200,
                       !.content = (CHOOSE f \in local_files : f.path = filename).content]
        ELSE [r EXCEPT !.status = 404]

\* a health check that answers only once the models are loaded
health_when_ready ==
    IF ~models_ready
    THEN [NoResponse EXCEPT !.op = "health", !.status = 503, !.body = "loading"]
    ELSE [NoResponse EXCEPT !.op = "health", !.status = 200, !.body = "healthy",
                            !.success = TRUE]

\* GET /health and GET /ready
health ==
    [NoResponse EXCEPT !.op = "health", !.status = 200,
                       !.body = IF models_ready THEN "healthy" ELSE "loading",
                       !.success = models_ready]

ready ==
    IF ~models_ready
    THEN [NoResponse EXCEPT !.op = "ready", !.status = 503]
    ELSE [NoResponse EXCEPT !.op = "ready", !.status = 200, !.body = "ready"]

----------------------------------------------------------------------------
(* Handlers of the local server, src/local_server.py *)

\* the tail shared by both handlers: mesh, file, response
LocalFinish(r, pc, user_id, prompt, mo, lput) ==
    LET sv == save_mesh_locally(MeshPly(mo), user_id, prompt, lput)
        stored == [r EXCEPT !.local_put = sv.put, !.filename = sv.filename,
                            !.content = MeshPly(mo), !.meshed = TRUE,
                            !.puts = <<"local">>]
    IN  IF ~MeshReady THEN Keep([r EXCEPT !.status = CatchAll(503)])
        ELSE IF ~mo.ok THEN Keep([r EXCEPT !.status = CatchAll(0), !.meshed = TRUE])
        ELSE IF sv.raised
        THEN Result([stored EXCEPT !.status = CatchAll(0)], gcs_blobs, sv.files)
        ELSE Result([stored EXCEPT !.status = 200, !.success = TRUE,
                        !.file_url = slash_download_slash \o user_id \o <<"/">> \o sv.filename,
                        !.vertices = mo.verts, !.faces = mo.faces],
                    gcs_blobs, sv.files)

\* POST /generate/text; an omitted user_id is "local"
local_text_to_3d(prompt, uid, format, so, mo, lput) ==
    LET user_id == IF uid.isNone THEN local ELSE uid.v
        r == [NoResponse EXCEPT !.op = "text", !.format = format, !.user_id = user_id]
    IN  IF ~TextReady THEN Keep([r EXCEPT !.status = CatchAll(503)])
        ELSE IF ~so.ok THEN Keep([r EXCEPT !.status = CatchAll(0), !.sampled = TRUE])
        ELSE IF format = <<"m", "e", "s", "h">>
        THEN LocalFinish([r EXCEPT !.sampled = TRUE], so, user_id, prompt, mo, lput)
        ELSE Keep([r EXCEPT !.status = CatchAll(400), !.sampled = TRUE])

\* POST /generate/image up to `await file.read()`
local_image_begin(upload, uid) ==
    LET user_id == IF uid.isNone THEN local ELSE uid.v
        r == [NoResponse EXCEPT !.op = "image", !.format = <<"m", "e", "s", "h">>,
                                !.user_id = user_id]
    IN  IF ~image_model
        THEN [done |-> TRUE, resp |-> [r EXCEPT !.status = CatchAll(503)]]
        ELSE [done |-> FALSE, resp |-> r, upload |-> upload]

\* POST /generate/image after the read
local_image_resume(task, decodes, so, mo, lput) ==
    LET r == task.resp
        prompt == IF Truthy(task.upload) THEN from_ \o path_stem(task.upload.v)
                  ELSE from_ \o image
    IN  IF ~decodes THEN Keep([r EXCEPT !.status = CatchAll(0)])
        ELSE IF ~ImageReady THEN Keep([r EXCEPT !.status = CatchAll(503)])
        ELSE IF ~so.ok THEN Keep([r EXCEPT !.status = CatchAll(0), !.sampled = TRUE])
        ELSE LocalFinish([r EXCEPT !.sampled = TRUE], so, r.user_id, prompt, mo, lput)

\* GET /download/{user_id}/{filename}
local_download(user_id, filename) ==
    LET path == user_id \o <<"/">> \o filename
        r == [NoResponse EXCEPT !.op = "download", !.user_id = user_id,
                                !.filename = filename]
    IN  IF \E f \in local_files : f.path = path
        THEN [r EXCEPT !.status = 200,
                       !.content = (CHOOSE f \in local_files : f.path = path).content]
        ELSE [r EXCEPT !.status = 404]

----------------------------------------------------------------------------
(* Startup *)

\* where loading a sub-model may raise: building it, or loading its checkpoint
LoadFailures == {"none", "model", "checkpoint"}

\* setup_gcs: the client global after it ran, and what it reported; every
\* failure is caught inside.  A bucket that could not be set up leaves the
\* client in place.
setup_gcs(client_created, bucket_ok) ==
    [client |-> ENABLE_GCS /\ client_created,
     errors |-> IF ~ENABLE_GCS THEN {}
                ELSE IF ~client_created THEN {"gcs"}
                ELSE IF ~bucket_ok THEN {"bucket"} ELSE {}]

\* a loader that sets the flag once the text and image models are there
load_models_flag_early(text_ok, image_fail, sdf_fail, client_created, bucket_ok) ==
    LET is == text_ok /\ image_fail = "none"
    IN  [text_sampler |-> text_ok, image_model |-> text_ok /\ image_fail # "model",
         image_sampler |-> is, sdf_model |-> is /\ sdf_fail # "model",
         models_ready |-> is, gcs_client |-> FALSE,
         errors |-> IF ~text_ok THEN {"text"}
                    ELSE IF ~is THEN {"image"}
                    ELSE IF sdf_fail # "none" THEN {"sdf"} ELSE {}]

\* load_models_fast: the globals after it ran.  The first failure ends it, with
\* whatever was assigned before; storage is set up only after every model.
load_models_fast(text_ok, image_fail, sdf_fail, client_created, bucket_ok) ==
    LET im == text_ok /\ image_fail # "model"
        is == text_ok /\ image_fail = "none"
        sm == is /\ sdf_fail # "model"
        ok == is /\ sdf_fail = "none"
    IN  [text_sampler |-> text_ok, image_model |-> im, image_sampler |-> is,
         sdf_model |-> sm, models_ready |-> ok,
         gcs_client |-> ok /\ setup_gcs(client_created, bucket_ok).client,
         errors |-> IF ~text_ok THEN {"text"}
                    ELSE IF ~is THEN {"image"}
                    ELSE IF ~ok THEN {"sdf"}
                    ELSE setup_gcs(client_created, bucket_ok).errors]

\* load_models of the local server: a failure of the image model is caught,
\* both image globals are reset and loading goes on
load_models(text_ok, image_fail, sdf_fail) ==
    LET is == text_ok /\ image_fail = "none"
        sm == text_ok /\ sdf_fail # "model"
        ok == text_ok /\ sdf_fail = "none"
    IN  [text_sampler |-> text_ok, image_model |-> is, image_sampler |-> is,
         sdf_model |-> sm, models_ready |-> ok, gcs_client |-> FALSE,
         errors |-> IF ~text_ok THEN {"text"}
                    ELSE (IF is THEN {} ELSE {"image"}) \cup (IF ok THEN {} ELSE {"sdf"})]

----------------------------------------------------------------------------
(* Inputs *)

mesh == <<"m", "e", "s", "h">>
pointcloud == <<"p", "o", "i", "n", "t", "c", "l", "o", "u", "d">>

Secrets == {<<>>, <<"k">>}
AuthHeaders ==
    {None, Some(Bearer \o <<" ", "k">>), Some(Bearer \o <<" ", "x">>), Some(Bearer \o <<" ">>)}
Prompts == {<<"a", " ", "c", "u", "b", "e", "!">>}
Formats == {mesh, pointcloud}
UserIdInputs == {None, Some(<<"u", "1">>)}
UserAgents == {"godot"}
ForwardedFor == {"None"}
RequestIds == {"r1"}
\* the file name of the multipart part that carries the image
Uploads == {Some(<<"c", ".", "p", "n", "g">>)}
Bogus == <<"n", "o", "n", "e", ".", "p", "l", "y">>

\* identities a catalog or a download may be asked for: the default of the
\* local server, the supplied ones, and those derived up to today
KnownUserIds ==
    {local} \cup {u.v : u \in UserIdInputs \ {None}}
            \cup {generate_user_id(a, f, [day |-> d, sec |-> 0]) :
                    a \in UserAgents, f \in ForwardedFor, d \in 0..now.day}

----------------------------------------------------------------------------
(* The process *)

Init ==
    /\ server \in {"prod", "local"}
    /\ SECRET_KEY \in (IF server = "prod" THEN Secrets ELSE {<<>>})
    /\ ENABLE_GCS \in (IF server = "prod" THEN BOOLEAN ELSE {FALSE})
    /\ lifespan = "Unloaded"
    /\ load_errors = {}
    /\ text_sampler = FALSE
    /\ image_model = FALSE
    /\ image_sampler = FALSE
    /\ sdf_model = FALSE
    /\ models_ready = FALSE
    /\ gcs_client = FALSE
    /\ now = [day |-> 0, sec |-> 0]
    /\ gcs_blobs = {}
    /\ local_files = {}
    /\ pending = {}
    /\ tasks = EmptyBag
    /\ last = NoResponse

SetGlobals(g) ==
    /\ text_sampler' = g.text_sampler
    /\ image_model' = g.image_model
    /\ image_sampler' = g.image_sampler
    /\ sdf_model' = g.sdf_model
    /\ models_ready' = g.models_ready
    /\ gcs_client' = g.gcs_client
    /\ lifespan' = IF g.models_ready THEN "Done" ELSE "Failed"
    /\ load_errors' = g.errors

\* the startup hook runs once; bucket_outcomes is what setting up the bucket
\* may do
Startup(bucket_outcomes) ==
    /\ lifespan = "Unloaded"
    /\ \E text_ok \in BOOLEAN, image_fail \in LoadFailures, sdf_fail \in LoadFailures,
          client_created \in BOOLEAN, bucket_ok \in bucket_outcomes :
          SetGlobals(IF server = "prod"
                     THEN load_models_fast(text_ok, image_fail, sdf_fail, client_created,
                                           bucket_ok)
                     ELSE load_models(text_ok, image_fail, sdf_fail))
    /\ UNCHANGED <<config, now, storage, pending, last, tasks>>

\* the startup when the bucket of a client that could be created can be set
\* up as well
LoadModels == Startup({TRUE})

\* the startup when setting up the bucket may raise
LoadModelsAnyBucket == Startup(BOOLEAN)

\* the wall clock moves on by a second, or to the next day
Tick ==
    /\ now.day + now.sec < MaxClock
    /\ \/ now' = [now EXCEPT !.sec = @ + 1]
       \/ now' = [now EXCEPT !.day = @ + 1]
    /\ UNCHANGED <<config, gate, storage, pending, last, tasks>>

\* the file names the two tiers hold
StoredNames(blobs, files) ==
    {basename(b.name) : b \in blobs} \cup {basename(f.path) : f \in files}

\* a handler ran to its response
Respond(out) ==
    /\ IF Cardinality(out.blobs) + Cardinality(out.files) <= MaxStored THEN TRUE
       ELSE Cardinality(StoredNames(out.blobs, out.files)) <= MaxStored
    /\ last' = out.resp
    /\ gcs_blobs' = out.blobs
    /\ local_files' = out.files

\* the outcomes a call may have when the handler makes it, one when it does not
Reached(made, outcomes, unused) == IF made THEN outcomes ELSE {unused}

SampleOk == [ok |-> TRUE, points |-> 6]
MeshOk == [ok |-> TRUE, verts |-> 4, faces |-> 2]

\* the handler h runs with every outcome of the calls it makes; a run in
\* which a call succeeds tells which call comes next
Run(h(_, _, _, _)) ==
    \E r0 \in {h(SampleOk, MeshOk, "ok", "ok")} :
    \E so \in Reached(r0.resp.sampled, SampleOutcomes, SampleOk) :
    \E r1 \in {IF so = SampleOk THEN r0 ELSE h(so, MeshOk, "ok", "ok")} :
    \E mo \in Reached(r1.resp.meshed, MeshOutcomes, MeshOk) :
    \E r2 \in {IF mo = MeshOk THEN r1 ELSE h(so, mo, "ok", "ok")} :
    \E gput \in Reached(r2.resp.gcs_put # "none", GcsOutcomes, "ok") :
    \E r3 \in {IF gput = "ok" THEN r2 ELSE h(so, mo, gput, "ok")} :
    \E lput \in Reached(r3.resp.local_put # "none", LocalOutcomes, "ok") :
        Respond(IF lput = "ok" THEN r3 ELSE h(so, mo, gput, lput))

\* the values a field of the request may take when the handler reads it, one
\* when the request is turned away before
Read(is_read, values) == IF is_read THEN values ELSE {CHOOSE x \in values : TRUE}

ProdTextTo3D ==
    /\ server = "prod"
    /\ \E authorization \in AuthHeaders :
       \E admitted \in {verify_secret_key(SECRET_KEY, authorization) = "True"} :
       \E prompt \in Read(admitted, Prompts), uid \in Read(admitted, UserIdInputs),
          format \in Read(admitted, Formats),
          user_agent \in Read(admitted, UserAgents),
          xff \in Read(admitted, ForwardedFor),
          request_id \in Read(admitted, RequestIds) :
          LET h(so, mo, gput, lput) ==
                  prod_text_to_3d(authorization, prompt, uid, format, user_agent,
                                  xff, request_id, so, mo, gput, lput)
          IN  Run(h)
    /\ UNCHANGED <<config, gate, now, pending, tasks>>

LocalTextTo3D ==
    /\ server = "local"
    /\ \E prompt \in Prompts, uid \in UserIdInputs, format \in Formats :
          LET h(so, mo, gput, lput) == local_text_to_3d(prompt, uid, format, so, mo, lput)
          IN  Run(h)
    /\ UNCHANGED <<config, gate, now, pending, tasks>>

\* an image request runs up to its read: it is answered, or it is suspended
Begin(b) ==
    IF b.done
    THEN last' = b.resp /\ UNCHANGED pending
    ELSE /\ Cardinality(pending) < MaxPending
         /\ pending' = pending \cup {[resp |-> b.resp, upload |-> b.upload]}
         /\ UNCHANGED last

ProdImageBegin ==
    /\ server = "prod"
    /\ \E authorization \in AuthHeaders, upload \in Uploads, format \in Formats,
          uid \in UserIdInputs, user_agent \in UserAgents, xff \in ForwardedFor :
          Begin(prod_image_begin(authorization, upload, format, uid, user_agent, xff))
    /\ UNCHANGED <<config, gate, now, storage, tasks>>

LocalImageBegin ==
    /\ server = "local"
    /\ \E upload \in Uploads, uid \in UserIdInputs : Begin(local_image_begin(upload, uid))
    /\ UNCHANGED <<config, gate, now, storage, tasks>>

ProdImageResume ==
    /\ server = "prod"
    /\ \E task \in pending, decodes \in BOOLEAN, request_id \in RequestIds :
          LET h(so, mo, gput, lput) ==
                  prod_image_resume(task, decodes, request_id, so, mo, gput, lput)
          IN  Run(h) /\ pending' = pending \ {task}
    /\ UNCHANGED <<config, gate, now, tasks>>

LocalImageResume ==
    /\ server = "local"
    /\ \E task \in pending, decodes \in BOOLEAN :
          LET h(so, mo, gput, lput) == local_image_resume(task, decodes, so, mo, lput)
          IN  Run(h) /\ pending' = pending \ {task}
    /\ UNCHANGED <<config, gate, now, tasks>>

GetUserModels ==
    /\ server = "prod"
    /\ \E user_id \in KnownUserIds, lists \in BOOLEAN :
          \E enumeration \in Enumerations(CatalogBlobs(user_id)) :
              last' = get_user_models(user_id, enumeration, lists)
    /\ UNCHANGED <<config, gate, now, storage, pending, tasks>>

ProdDownload ==
    /\ server = "prod"
    /\ \E filename \in {f.path : f \in local_files}
                         \cup {basename(b.name) : b \in gcs_blobs} \cup {Bogus} :
          last' = prod_download(filename)
    /\ UNCHANGED <<config, gate, now, storage, pending, tasks>>

LocalDownload ==
    /\ server = "local"
    /\ \E user_id \in KnownUserIds,
          filename \in {basename(f.path) : f \in local_files} \cup {Bogus} :
          last' = local_download(user_id, filename)
    /\ UNCHANGED <<config, gate, now, storage, pending, tasks>>

Health ==
    /\ last' = health
    /\ UNCHANGED <<config, gate, now, storage, pending, tasks>>

Ready ==
    /\ server = "prod"
    /\ last' = ready
    /\ UNCHANGED <<config, gate, now, storage, pending, tasks>>

\* POST /generate/image when nothing else runs between its two halves
ProdImageTo3D ==
    /\ server = "prod"
    /\ \E authorization \in AuthHeaders :
       \E admitted \in {verify_secret_key(SECRET_KEY, authorization) = "True"} :
       \E upload \in Read(admitted, Uploads), format \in Read(admitted, Formats),
          uid \in Read(admitted, UserIdInputs),
          user_agent \in Read(admitted, UserAgents),
          xff \in Read(admitted, ForwardedFor),
          decodes \in Read(admitted, BOOLEAN),
          request_id \in Read(admitted, RequestIds) :
       \E b \in {prod_image_begin(authorization, upload, format, uid, user_agent, xff)} :
          LET h(so, mo, gput, lput) ==
                  IF b.done THEN Keep(b.resp)
                  ELSE prod_image_resume([resp |-> b.resp, upload |-> b.upload],
                                         decodes, request_id, so, mo, gput, lput)
          IN  Run(h)
    /\ UNCHANGED <<config, gate, now, pending, tasks>>

LocalImageTo3D ==
    /\ server = "local"
    /\ \E upload \in Uploads, uid \in UserIdInputs, decodes \in BOOLEAN :
       \E b \in {local_image_begin(upload, uid)} :
          LET h(so, mo, gput, lput) ==
                  IF b.done THEN Keep(b.resp)
                  ELSE local_image_resume([resp |-> b.resp, upload |-> b.upload],
                                          decodes, so, mo, lput)
          IN  Run(h)
    /\ UNCHANGED <<config, gate, now, pending, tasks>>

\* the requests and events of one server process within one second of the
\* clock; an image request is handled without interruption
Next ==
    \/ LoadModels
    \/ ProdTextTo3D
    \/ LocalTextTo3D
    \/ ProdImageTo3D
    \/ LocalImageTo3D
    \/ GetUserModels
    \/ ProdDownload
    \/ LocalDownload
    \/ Health
    \/ Ready

Spec == Init /\ [][Next]_vars

\* the same process while the clock moves on
NextClock ==
    \/ LoadModels
    \/ Tick
    \/ ProdTextTo3D
    \/ LocalTextTo3D
    \/ GetUserModels

SpecClock == Init /\ [][NextClock]_vars

\* the same process when an image request may be suspended at its read while
\* other requests are handled
NextAsync ==
    \/ LoadModels
    \/ ProdTextTo3D
    \/ LocalTextTo3D
    \/ ProdImageBegin
    \/ LocalImageBegin
    \/ ProdImageResume
    \/ LocalImageResume
    \/ Health

SpecAsync == Init /\ [][NextAsync]_vars

----------------------------------------------------------------------------
(* Generations whose calls all succeed, and the catalog over the bucket *)
(* they filled                                                        *)

CatalogPrompts == {<<"a">>, <<"m", "e", "s", "h", "_">>}

\* user_id of a request body: any text, a path separator included
CatalogUserIds == UserIdInputs \cup {Some(<<"u", "1", "/", "x">>)}

\* POST /generate/text with the configured secret, when every call the handler
\* makes succeeds
ProdTextTo3DOk ==
    /\ server = "prod"
    /\ \E prompt \in CatalogPrompts, uid \in CatalogUserIds, format \in Formats,
          user_agent \in UserAgents, xff \in ForwardedFor, request_id \in RequestIds :
       \E out \in {prod_text_to_3d(Some(Bearer \o <<" ">> \o SECRET_KEY), prompt, uid,
                                   format, user_agent, xff, request_id,
                                   SampleOk, MeshOk, "ok", "ok")} :
          /\ Cardinality(out.blobs) + Cardinality(out.files) <= MaxListed
          /\ last' = out.resp
          /\ gcs_blobs' = out.blobs
          /\ local_files' = out.files
    /\ UNCHANGED <<config, gate, now, pending, tasks>>

\* file names a client may give its upload: any text
UploadNames == Uploads \cup {Some(<<"a", "!", ".", "p", "n", "g">>)}

\* POST /generate/image with the configured secret, when the upload decodes
\* and every call the handler makes succeeds
ProdImageTo3DOk ==
    /\ server = "prod"
    /\ \E upload \in UploadNames, uid \in UserIdInputs, format \in Formats,
          user_agent \in UserAgents, xff \in ForwardedFor, request_id \in RequestIds :
       \E b \in {prod_image_begin(Some(Bearer \o <<" ">> \o SECRET_KEY), upload, format,
                                  uid, user_agent, xff)} :
       \E out \in {IF b.done THEN Keep(b.resp)
                   ELSE prod_image_resume([resp |-> b.resp, upload |-> b.upload], TRUE,
                                          request_id, SampleOk, MeshOk, "ok", "ok")} :
          /\ Cardinality(out.blobs) + Cardinality(out.files) <= MaxListed
          /\ last' = out.resp
          /\ gcs_blobs' = out.blobs
          /\ local_files' = out.files
    /\ UNCHANGED <<config, gate, now, pending, tasks>>

NextCatalog ==
    \/ LoadModels
    \/ Tick
    \/ ProdTextTo3DOk
    \/ ProdImageTo3DOk
    \/ GetUserModels

SpecCatalog == Init /\ [][NextCatalog]_vars

----------------------------------------------------------------------------
(* The fields of a text request that the handlers never look at *)

obj == <<"o", "b", "j">>

\* grid_size: int = 32, with no validator on the field
GridSizes == {-1, 0, 32}

\* format: str = "mesh", with no validator on the field
AnyFormats == Formats \cup {obj}

\* the response of a handler, with the request fields it was given
Given(out, prompt, grid_size) ==
    [out EXCEPT !.resp.prompt = prompt, !.resp.grid_size = grid_size]

\* POST /generate/text of the production server with the configured secret:
\* grid_size reaches nothing but marching_cubes_mesh
ProdTextRequest ==
    /\ server = "prod"
    /\ \E prompt \in Prompts, uid \in UserIdInputs, format \in AnyFormats,
          grid_size \in GridSizes, user_agent \in UserAgents, xff \in ForwardedFor,
          request_id \in RequestIds :
          LET h(so, mo, gput, lput) ==
                  Given(prod_text_to_3d(Some(Bearer \o <<" ">> \o SECRET_KEY), prompt,
                                        uid, format, user_agent, xff, request_id,
                                        so, mo, gput, lput),
                        prompt, grid_size)
          IN  Run(h)
    /\ UNCHANGED <<config, gate, now, pending, tasks>>

\* POST /generate/text of the local server
LocalTextRequest ==
    /\ server = "local"
    /\ \E prompt \in Prompts, uid \in UserIdInputs, format \in AnyFormats,
          grid_size \in GridSizes :
          LET h(so, mo, gput, lput) ==
                  Given(local_text_to_3d(prompt, uid, format, so, mo, lput),
                        prompt, grid_size)
          IN  Run(h)
    /\ UNCHANGED <<config, gate, now, pending, tasks>>

NextRequest ==
    \/ LoadModels
    \/ ProdTextRequest
    \/ LocalTextRequest

SpecRequest == Init /\ [][NextRequest]_vars

----------------------------------------------------------------------------
(* The event loop.  Every handler is `async def`: it runs on the one thread *)
(* of the loop from where it starts or resumes to its next await or to its  *)
(* return, and the sampler and marching cubes are plain calls inside it.    *)

\* a loop whose handlers hand the collaborator calls to other threads
AwaitsInCalls(op, at) == at \in {"read", "sample", "mesh"}

\* where a handler is suspended with the thread free: the one await of the
\* code, `await file.read()` of POST /generate/image
Awaits(op, at) == op = "image" /\ at = "read"

\* how many of the tasks are among those of S
Copies(S) == BagCardinality([t \in S \cap BagToSet(tasks) |-> tasks[t]])

\* the tasks on the thread: begun, and not suspended
OnThread == {t \in BagToSet(tasks) : t.at # "queued" /\ ~Awaits(t.op, t.at)}

\* a task takes a step when it is on the thread or the thread is free
MayStep(t) == Copies(OnThread) = Copies(OnThread \cap {t}) /\ Copies(OnThread) <= 1

\* the tasks inside sample_batch_progressive of a sampler, and those inside
\* marching_cubes_mesh
Sampling(op) == {t \in BagToSet(tasks) : t.op = op /\ t.at = "sample"}
Meshing == {t \in BagToSet(tasks) : t.at = "mesh"}

LoopOps == {"text", "image", "health", "list"}

\* the handler of a generation task from its last resumption on
TaskHandler(t, request_id, so, mo, gput, lput) ==
    LET prompt == CHOOSE p \in Prompts : TRUE
        user_agent == CHOOSE a \in UserAgents : TRUE
        xff == CHOOSE f \in ForwardedFor : TRUE
        upload == CHOOSE u \in Uploads : TRUE
        suspended == [resp |-> t.resp, upload |-> upload]
    IN  IF t.op = "text"
        THEN IF server = "prod"
             THEN prod_text_to_3d(Some(Bearer \o <<" ">> \o SECRET_KEY), prompt, t.uid,
                                  t.format, user_agent, xff, request_id,
                                  so, mo, gput, lput)
             ELSE local_text_to_3d(prompt, t.uid, t.format, so, mo, lput)
        ELSE IF server = "prod"
             THEN prod_image_resume(suspended, t.decodes, request_id, so, mo, gput, lput)
             ELSE local_image_resume(suspended, t.decodes, so, mo, lput)

\* POST /generate/image of a task up to its read
TaskBegin(t) ==
    LET user_agent == CHOOSE a \in UserAgents : TRUE
        xff == CHOOSE f \in ForwardedFor : TRUE
        upload == CHOOSE u \in Uploads : TRUE
    IN  IF server = "prod"
        THEN prod_image_begin(Some(Bearer \o <<" ">> \o SECRET_KEY), upload, t.format,
                              t.uid, user_agent, xff)
        ELSE local_image_begin(upload, t.uid)

\* a request, without a user_id, is accepted once the startup hook has run
Arrive ==
    /\ lifespan # "Unloaded"
    /\ BagCardinality(tasks) < MaxTasks
    /\ \E op \in (IF server = "prod" THEN LoopOps ELSE LoopOps \ {"list"}) :
       \E format \in Read(op \in {"text", "image"}, Formats) :
          tasks' = tasks (+) SetToBag({[op |-> op, at |-> "queued", format |-> format,
                                       uid |-> None, resp |-> NoResponse,
                                       decodes |-> TRUE, so |-> SampleOk]})
    /\ UNCHANGED <<config, gate, now, storage, pending, last>>

\* the handler of t returns or raises
Answer(t, out) == Respond(out) /\ tasks' = tasks (-) SetToBag({t})

\* the handler of t goes on to a call or an await
Goes(t, u) ==
    tasks' = (tasks (-) SetToBag({t})) (+) SetToBag({u}) /\ UNCHANGED <<storage, last>>

\* from entry or resumption up to the sampler
ToSampler(t, u) ==
    \E r0 \in {TaskHandler(u, CHOOSE r \in RequestIds : TRUE, SampleOk, MeshOk, "ok", "ok")} :
        IF r0.resp.sampled THEN Goes(t, [u EXCEPT !.at = "sample"]) ELSE Answer(t, r0)

\* from the point cloud or the mesh to the response, when the writes succeed
Store(t, so, mo) ==
    \E request_id \in RequestIds : Answer(t, TaskHandler(t, request_id, so, mo, "ok", "ok"))

\* the loop starts the handler of a queued request
Enter(t) ==
    /\ t.at = "queued"
    /\ MayStep(t)
    /\ IF t.op = "health" THEN Answer(t, Keep(health))
       ELSE IF t.op = "list"
       THEN \E user_id \in KnownUserIds, lists \in BOOLEAN :
            \E enumeration \in Enumerations(CatalogBlobs(user_id)) :
                Answer(t, Keep(get_user_models(user_id, enumeration, lists)))
       ELSE IF t.op = "text" THEN ToSampler(t, t)
       ELSE \E b \in {TaskBegin(t)} :
                IF b.done THEN Answer(t, Keep(b.resp))
                ELSE Goes(t, [t EXCEPT !.at = "read", !.resp = b.resp])
    /\ UNCHANGED <<config, gate, now, pending>>

\* the read of the upload is over and the loop resumes the handler
Resume(t) ==
    /\ t.at = "read"
    /\ MayStep(t)
    /\ \E decodes \in BOOLEAN : ToSampler(t, [t EXCEPT !.decodes = decodes])
    /\ UNCHANGED <<config, gate, now, pending>>

\* the sampler returns or raises
Sampled(t) ==
    /\ t.at = "sample"
    /\ MayStep(t)
    /\ \E so \in SampleOutcomes :
       \E r1 \in {TaskHandler(t, CHOOSE r \in RequestIds : TRUE, so, MeshOk, "ok", "ok")} :
           IF r1.resp.meshed THEN Goes(t, [t EXCEPT !.at = "mesh", !.so = so])
           ELSE Store(t, so, MeshOk)
    /\ UNCHANGED <<config, gate, now, pending>>

\* marching cubes returns or raises
Meshed(t) ==
    /\ t.at = "mesh"
    /\ MayStep(t)
    /\ \E mo \in MeshOutcomes : Store(t, t.so, mo)
    /\ UNCHANGED <<config, gate, now, pending>>

EnterSome == \E t \in BagToSet(tasks) : Enter(t)
ResumeSome == \E t \in BagToSet(tasks) : Resume(t)
SampledSome == \E t \in BagToSet(tasks) : Sampled(t)
MeshedSome == \E t \in BagToSet(tasks) : Meshed(t)

NextLoop ==
    \/ LoadModels
    \/ Arrive
    \/ EnterSome
    \/ ResumeSome
    \/ SampledSome
    \/ MeshedSome

SpecLoop == Init /\ [][NextLoop]_vars

----------------------------------------------------------------------------
(* The identity of a text request *)

\* user_id: Optional[str] = None; an empty text is accepted as well
OfferedUserIds == UserIdInputs \cup {Some(<<>>)}

IdentityAgents == {"godot", "curl"}

\* the response of a handler, with the user_id and the headers it was given
\* and the calendar day
Asked(out, uid, user_agent, xff) ==
    [out EXCEPT !.resp.uid = uid, !.resp.user_agent = user_agent, !.resp.xff = xff,
                !.resp.day = now.day]

\* POST /generate/text of the production server with the configured secret,
\* when every call the handler makes succeeds
ProdTextIdentified ==
    /\ server = "prod"
    /\ \E prompt \in Prompts, uid \in OfferedUserIds, format \in Formats,
          user_agent \in IdentityAgents, xff \in ForwardedFor, request_id \in RequestIds :
       \E out \in {Asked(prod_text_to_3d(Some(Bearer \o <<" ">> \o SECRET_KEY), prompt,
                                         uid, format, user_agent, xff, request_id,
                                         SampleOk, MeshOk, "ok", "ok"),
                          uid, user_agent, xff)} :
          /\ Cardinality(out.blobs) + Cardinality(out.files) <= MaxListed
          /\ last' = out.resp
          /\ gcs_blobs' = out.blobs
          /\ local_files' = out.files
    /\ UNCHANGED <<config, gate, now, pending, tasks>>

NextIdentity ==
    \/ LoadModels
    \/ Tick
    \/ ProdTextIdentified

SpecIdentity == Init /\ [][NextIdentity]_vars

----------------------------------------------------------------------------
(* Generations that succeed one after another, each with a mesh of its own *)
(* and, where the code draws one, a uuid of its own                        *)

\* the sampler is stochastic: two calls return different meshes
Meshes == {MeshOk, [ok |-> TRUE, verts |-> 5, faces |-> 3]}

\* str(uuid.uuid4())[:8]: a value no stored name carries yet
Uuid4 ==
    CHOOSE u \in {"r" \o ToString(i) : i \in 1..(MaxListed + 1)} :
        \A n \in {b.name : b \in gcs_blobs} \cup {f.path : f \in local_files} :
            ~Contains(n, <<u>>)

\* the handler returned a success response
Succeeds(out) ==
    /\ out.resp.success
    /\ Cardinality(out.blobs) + Cardinality(out.files) <= MaxListed
    /\ last' = out.resp
    /\ gcs_blobs' = out.blobs
    /\ local_files' = out.files

ProdTextTo3DFresh ==
    /\ server = "prod"
    /\ \E prompt \in Prompts, uid \in UserIdInputs, format \in Formats,
          user_agent \in UserAgents, xff \in ForwardedFor, mo \in Meshes,
          gput \in GcsOutcomes :
          Succeeds(prod_text_to_3d(Some(Bearer \o <<" ">> \o SECRET_KEY), prompt, uid,
                                   format, user_agent, xff, Uuid4, SampleOk, mo, gput, "ok"))
    /\ UNCHANGED <<config, gate, now, pending, tasks>>

LocalTextTo3DFresh ==
    /\ server = "local"
    /\ \E prompt \in Prompts, uid \in UserIdInputs, mo \in Meshes :
          Succeeds(local_text_to_3d(prompt, uid, mesh, SampleOk, mo, "ok"))
    /\ UNCHANGED <<config, gate, now, pending, tasks>>

NextFresh ==
    \/ LoadModels
    \/ Tick
    \/ ProdTextTo3DFresh
    \/ LocalTextTo3DFresh

SpecFresh == Init /\ [][NextFresh]_vars

----------------------------------------------------------------------------
(* Text requests after a startup in which setting up the bucket may fail *)

NextStartup ==
    \/ LoadModelsAnyBucket
    \/ ProdTextTo3D
    \/ LocalTextTo3D

SpecStartup == Init /\ [][NextStartup]_vars

----------------------------------------------------------------------------
(* verify_secret_key on its own: every secret and every presented header *)

TokenChars == {"k", "x", " ", "é"}

Tokens == UNION {[1..n -> TokenChars] : n \in 0..MaxTokLen}

Schemes == {Bearer, bearer, BEARER, Basic, <<>>}

PresentedHeaders ==
    {None} \cup {Some(sch \o t) : sch \in Schemes, t \in Tokens}
           \cup {Some(sch \o <<" ">> \o t) : sch \in Schemes, t \in Tokens}

InitAuth ==
    /\ server = "prod"
    /\ SECRET_KEY \in Tokens
    /\ ENABLE_GCS = FALSE
    /\ lifespan = "Unloaded"
    /\ load_errors = {}
    /\ text_sampler = FALSE
    /\ image_model = FALSE
    /\ image_sampler = FALSE
    /\ sdf_model = FALSE
    /\ models_ready = FALSE
    /\ gcs_client = FALSE
    /\ now = [day |-> 0, sec |-> 0]
    /\ gcs_blobs = {}
    /\ local_files = {}
    /\ pending = {}
    /\ tasks = EmptyBag
    /\ last = NoResponse

\* one call per run
Verify ==
    /\ last = NoResponse
    /\ \E authorization \in PresentedHeaders :
          last' = [NoResponse EXCEPT !.op = "verify", !.authorization = authorization,
                                     !.verified = verify_secret_key(SECRET_KEY, authorization)]
    /\ UNCHANGED <<config, gate, now, storage, pending, tasks>>

SpecAuth == InitAuth /\ [][Verify]_vars

----------------------------------------------------------------------------
(* Properties *)

IsGeneration(r) == r.op \in {"text", "image"}

\* the header is a bearer scheme, one blank, and exactly the secret
CarriesSecret(authorization, secret) ==
    /\ ~authorization.isNone
    /\ Len(authorization.v) = Len(bearer) + 1 + Len(secret)
    /\ Lower(SubSeq(authorization.v, 1, Len(bearer))) = bearer
    /\ authorization.v[Len(bearer) + 1] = " "
    /\ SubSeq(authorization.v, Len(bearer) + 2, Len(authorization.v)) = secret

\* the request got as far as the readiness check of its capability
PassedGuard(r) == r.verified \in {"True", "n/a"}

\* the capability the request needs is ready
NeededReady(r) ==
    models_ready /\ (IF r.op = "text" THEN text_sampler ELSE image_sampler)

NoWork(r) ==
    /\ ~r.sampled
    /\ ~r.meshed
    /\ r.gcs_put = "none"
    /\ r.local_put = "none"

\* C1: a generation request answered while its capability is not ready made
\* no sample and no mesh call, and the step that answered it left both
\* storage tiers as they were.
C1_NotReadyNoInference ==
    [][(IsGeneration(last') /\ ~NeededReady(last)')
          => (NoWork(last') /\ ~last'.success /\ storage' = storage)]_vars

C1_Witness ==
    /\ IsGeneration(last)
    /\ PassedGuard(last)
    /\ ~NeededReady(last)
    /\ text_sampler
    /\ last.status = 500

\* C2: a text request that reaches the readiness check while the gate is not
\* ready is answered with status 503.
C2_NotReadyIs503 ==
    (last.op = "text" /\ PassedGuard(last) /\ ~NeededReady(last)) => last.status = 503

C6_VerifyExact ==
    (last.op = "verify" /\ SECRET_KEY # <<>>)
        => /\ last.verified \in {"True", "False"}
           /\ last.verified = "True" <=> CarriesSecret(last.authorization, SECRET_KEY)

\* the file the production download endpoint serves for a file_url
ServedLocally(r) ==
    /\ r.file_url = slash_download_slash \o r.filename
    /\ prod_download(r.filename).status = 200
    /\ prod_download(r.filename).content = r.content

\* C7 as claimed: whenever the remote put of a generation request failed, the
\* request succeeded, the local download endpoint serves the artifact under
\* the returned name, and the file_url names the local tier.
C7_RemoteFailureFallsBack ==
    (server = "prod" /\ IsGeneration(last) /\ last.gcs_put = "failed")
        => (last.success /\ last.status = 200 /\ ServedLocally(last))

\* C7 as amended: the same, unless the local put failed as well; then the
\* request is answered 500 and is no success.
C7_RemoteFailureFallsBackUnlessLocalFails ==
    (server = "prod" /\ IsGeneration(last) /\ last.gcs_put = "failed")
        => IF last.local_put = "ok"
           THEN last.success /\ last.status = 200 /\ ServedLocally(last)
           ELSE last.local_put = "failed" /\ ~last.success /\ last.status = 500

C7_Witness ==
    /\ server = "prod"
    /\ last.op = "text"
    /\ last.gcs_put = "failed"
    /\ last.local_put = "ok"
    /\ last.success
    /\ gcs_blobs = {}

\* C8: a catalog request made while the remote tier is unavailable is
\* answered with an empty list, not an error.
C8_ListEmptyWithoutRemote ==
    (last.op = "list" /\ ~gcs_client) => (last.status = 200 /\ last.models = <<>>)

\* every listing the catalog may return for the identity holds the artifact
ListedFor(r) ==
    /\ gcs_client
    /\ \A enumeration \in Enumerations(CatalogBlobs(r.user_id)) :
          LET listing == get_user_models(r.user_id, enumeration, TRUE)
          IN  /\ listing.status = 200
              /\ \E i \in 1..Len(listing.models) :
                    /\ listing.models[i].filename = r.filename
                    /\ \E b \in gcs_blobs : b.name = listing.models[i].path
                                            /\ b.content = r.content

\* the download endpoint of the server serves the artifact at the file_url
Downloadable(r) ==
    IF server = "prod" THEN ServedLocally(r)
    ELSE /\ r.file_url = slash_download_slash \o r.user_id \o <<"/">> \o r.filename
         /\ local_download(r.user_id, r.filename).status = 200
         /\ local_download(r.user_id, r.filename).content = r.content

\* C9: after a successful generation the artifact is listed in the catalog of
\* the returned identity or served by the download endpoint at the returned
\* file_url.
C9_NoDanglingSuccess ==
    (IsGeneration(last) /\ last.success) => (ListedFor(last) \/ Downloadable(last))

C9_Witness ==
    /\ server = "prod"
    /\ IsGeneration(last)
    /\ last.success
    /\ last.gcs_put = "ok"
    /\ ~Downloadable(last)

\* the response of a mesh generation carries the counts of the stored mesh
\* and a file_url
CarriesMesh(r) ==
    /\ r.content.kind = "mesh"
    /\ r.vertices = r.content.verts
    /\ r.faces = r.content.faces
    /\ r.vertices = MeshOk.verts
    /\ r.faces = MeshOk.faces
    /\ r.file_url # <<>>

\* C10 as claimed: after every successful mesh generation the response
\* carries the counts and a file_url and the catalog of the identity lists
\* the artifact.
C10_MeshListedAlways ==
    (IsGeneration(last) /\ last.success /\ last.format = mesh)
        => (CarriesMesh(last) /\ ListedFor(last))

\* C10 as amended: the response carries the counts and a file_url, and the
\* catalog of the identity lists the artifact when the remote put succeeded;
\* otherwise the download endpoint serves it from the local tier.
C10_MeshListedWhenRemote ==
    (IsGeneration(last) /\ last.success /\ last.format = mesh)
        => /\ CarriesMesh(last)
           /\ IF last.gcs_put = "ok" THEN ListedFor(last) ELSE Downloadable(last)

C10_Witness ==
    /\ server = "prod"
    /\ last.op = "text"
    /\ last.success
    /\ last.format = mesh
    /\ last.derived
    /\ last.gcs_put = "ok"
    /\ ListedFor(last)

\* the characters of the model in the order of their code points
CodePoints ==
    <<" ", "!", "-", ".", "/", "0", "1", "2", "3", "4", "5", "6", "7", "8", "9",
      "A", "B", "C", "D", "E", "F", "G", "H", "I", "J", "K", "L", "M", "N", "O",
      "P", "Q", "R", "S", "T", "U", "V", "W", "X", "Y", "Z", "_",
      "a", "b", "c", "d", "e", "f", "g", "h", "i", "j", "k", "l", "m", "n", "o",
      "p", "q", "r", "s", "t", "u", "v", "w", "x", "y", "z", "é">>

\* the place of a character in that order; 0 for the opaque elements, which
\* two names of the same second and request share
Ord(c) ==
    IF \E i \in 1..Len(CodePoints) : CodePoints[i] = c
    THEN CHOOSE i \in 1..Len(CodePoints) : CodePoints[i] = c
    ELSE 0

\* a < b as Python compares two str
RECURSIVE StrLessFrom(_, _, _)
StrLessFrom(a, b, i) ==
    IF i > Len(a) THEN i <= Len(b)
    ELSE IF i > Len(b) THEN FALSE
    ELSE IF a[i] = b[i] THEN StrLessFrom(a, b, i + 1)
    ELSE Ord(a[i]) < Ord(b[i])

StrLess(a, b) == StrLessFrom(a, b, 1)

\* C11: a listing is ordered by creation time, latest first, and two entries
\* created at the same time stand in ascending order of their filenames,
\* however the bucket enumerated its objects.
C11_ListOrdered ==
    (last.op = "list" /\ last.status = 200)
        => \A i, j \in 1..Len(last.models) :
              i < j => \/ Later(last.models[i].created, last.models[j].created)
                       \/ /\ last.models[i].created = last.models[j].created
                          /\ StrLess(last.models[i].filename, last.models[j].filename)

\* C12: the catalog reports the kind mesh for exactly the stored artifacts
\* whose filename starts with the mesh prefix, those generated as a mesh.
C12_KindFollowsPrefix ==
    (last.op = "list" /\ last.status = 200)
        => \A i \in 1..Len(last.models) :
              /\ last.models[i].type = "mesh" <=> StartsWith(last.models[i].filename, mesh_)
              /\ \A b \in gcs_blobs :
                    b.name = last.models[i].path
                        => (last.models[i].type = "mesh" <=> b.content.kind = "mesh")

\* the request is one the interface calls invalid
InvalidRequest(r) == r.grid_size <= 0 \/ r.format \notin Formats

\* C13: a text request with a grid_size of zero or less, or with a format
\* other than mesh and pointcloud, made while the text capability is ready,
\* is answered as an invalid request (400 or 422) and nothing is sampled.
C13_InvalidRejected ==
    (last.op = "text" /\ PassedGuard(last) /\ NeededReady(last) /\ InvalidRequest(last))
        => (last.status \in {400, 422} /\ ~last.sampled)

\* C14: whatever the order in which concurrent generation requests are
\* handled, at no time are two invocations of the same sampler, or two of
\* marching cubes, in progress.
C14_CallsSerialized ==
    /\ \A op \in {"text", "image"} : Copies(Sampling(op)) <= 1
    /\ Copies(Meshing) <= 1

\* a second request for the same sampler waits while the first is inside it
C14_Witness ==
    \E t, u \in BagToSet(tasks) : /\ t.op = u.op /\ t.op \in {"text", "image"}
                        /\ t.at = "sample" /\ u.at = "queued"

\* C15: a health check or a catalog listing that arrived while a generation
\* call is executing can be handled before that call finishes.
C15_UnrelatedNotBlocked ==
    \A t \in BagToSet(tasks) :
        (/\ t.op \in {"health", "list"} /\ t.at = "queued"
         /\ \E g \in BagToSet(tasks) : g.at \in {"sample", "mesh"})
            => ENABLED Enter(t)

\* C16: when loading the image sub-model is the only thing that fails during
\* startup, the gate is Ready and the text and mesh capabilities are there,
\* in the production and in the local server.
C16_ImageOptional ==
    (lifespan # "Unloaded" /\ load_errors = {"image"}) => (TextReady /\ MeshReady)

\* C17: an image request answered while the gate is ready for text and the
\* image sampler was never loaded is turned away without a sampler call, with
\* a status of its own: not the one of an internal error.
C17_ImageCapabilityUnavailable ==
    [][(/\ last' # last
        /\ last'.op = "image"
        /\ PassedGuard(last')
        /\ TextReady
        /\ ~image_sampler)
          => (/\ last'.status >= 400
              /\ last'.status # CatchAll(0)
              /\ ~last'.sampled)]_vars

\* C18: GET /health is answered 200 whatever the gate, with no look at a
\* credential, and reports models_ready as it is, "healthy" exactly when it
\* is set; GET /ready is answered 200 exactly when models_ready is set and
\* 503 otherwise.
C18_HealthAndReady ==
    [][/\ (last' # last /\ last'.op = "health")
            => (/\ last'.status = 200
                /\ last'.verified = "n/a"
                /\ last'.success = models_ready
                /\ last'.body = "healthy" <=> models_ready)
       /\ (last' # last /\ last'.op = "ready")
            => last'.status = (IF models_ready THEN 200 ELSE 503)]_vars

\* a health check answered while a secret is configured and nothing is loaded
C18_Witness ==
    /\ last.op = "health"
    /\ last.status = 200
    /\ last.body = "loading"
    /\ ~models_ready
    /\ SECRET_KEY # <<>>

\* C19: an image request of the production server that carries the secret
\* and asks for a point cloud while the image sampler is ready, and whose
\* calls all succeed, is answered like a text request: 200, success, a
\* stored point-cloud file, and no faces counted.
C19_ImagePointCloud ==
    [][(/\ last' # last
        /\ last'.op = "image"
        /\ last'.verified = "True"
        /\ ImageReady
        /\ last'.format = pointcloud)
          => (/\ last'.status = 200
              /\ last'.success
              /\ StartsWith(last'.filename, pointcloud_)
              /\ last'.content.kind = "pointcloud"
              /\ last'.faces <= 0)]_vars

\* the identity a text request that got past the guards runs under
Identified(r, s) ==
    /\ r # s
    /\ r.op = "text"
    /\ r.verified = "True"
    /\ TextReady

\* the identity derived at the start of the day of the request from its
\* user agent and forwarded address
DerivedFor(r) == generate_user_id(r.user_agent, r.xff, [day |-> r.day, sec |-> 0])

\* C20 as stated: the derived identity is the same at every moment of a day
\* and in every state of the server, and a user_id given with the request is
\* always the identity used.
C20_SuppliedAlwaysUsed ==
    [][Identified(last', last)
          => IF last'.uid.isNone THEN last'.user_id = DerivedFor(last')
             ELSE last'.user_id = last'.uid.v]_vars

\* C20: the derived identity is the same at every moment of a day and in
\* every state of the server, and a user_id given with the request is the
\* identity used unless it is the empty text, which is treated as absent.
C20_SuppliedUnlessEmpty ==
    [][Identified(last', last)
          => IF Truthy(last'.uid) THEN last'.user_id = last'.uid.v /\ ~last'.derived
             ELSE last'.user_id = DerivedFor(last') /\ last'.derived]_vars

\* an identity derived later in a day, after an earlier request left a file
C20_Witness ==
    /\ last.op = "text"
    /\ last.verified = "True"
    /\ last.derived
    /\ last.uid = Some(<<>>)
    /\ now.sec > 0
    /\ last.day = now.day
    /\ last.success
    /\ Cardinality(gcs_blobs) + Cardinality(local_files) > 1

\* C21: a generation that reaches storage calls the bucket first when a
\* client exists, once, and the local disk at most once and only when there
\* is no client or the upload gave no URL; a failed upload alone still ends
\* in a success response, and only a failed local write ends in an error.
C21_RemoteFirstOnce ==
    [][(last' # last /\ IsGeneration(last') /\ last'.puts # <<>>)
          => (/\ last'.puts = (IF gcs_client THEN <<"gcs">> ELSE <<>>)
                               \o (IF last'.local_put # "none" THEN <<"local">> ELSE <<>>)
              /\ last'.local_put # "none" => (~gcs_client \/ last'.gcs_put = "failed")
              /\ (last'.gcs_put = "failed" /\ last'.local_put = "ok")
                    => (last'.status = 200 /\ last'.success)
              /\ last'.status # 200 => last'.local_put = "failed")]_vars

\* an upload failed, the local write followed, and the caller got a success
C21_Witness ==
    /\ IsGeneration(last)
    /\ last.puts = <<"gcs", "local">>
    /\ last.gcs_put = "failed"
    /\ last.status = 200

\* the startup reported that the storage client or the bucket failed
RemoteInitFailed == load_errors \cap {"gcs", "bucket"} # {}

\* C22: when setting up the bucket storage failed at startup, the models are
\* ready all the same, the client stays unset from then on, and no later
\* generation calls the bucket.
C22_RemoteStaysDisabled ==
    [][RemoteInitFailed
          => (/\ models_ready
              /\ ~gcs_client'
              /\ (last' # last /\ IsGeneration(last')) => last'.gcs_put = "none")]_vars

\* C23: a success response carries expires_at exactly when its artifact is
\* held by the bucket, behind a signed URL; one whose artifact is a local
\* file has none.
C23_ExpiryOnlyWhenRemote ==
    (IsGeneration(last) /\ last.success) => (last.expires_at <=> last.gcs_put = "ok")

\* C24: a generation that answers with the local file after its upload gave
\* no URL left the bucket as it was: the artifact exists as a local file
\* only.
C24_FallbackLeavesNoBlob ==
    [][(/\ last' # last
        /\ IsGeneration(last')
        /\ last'.gcs_put = "failed"
        /\ last'.local_put = "ok")
          => gcs_blobs' = gcs_blobs]_vars

\* C25: a generation that is answered with an error left the bucket and the
\* local directory as it found them.
C25_ErrorLeavesStorage ==
    [][(last' # last /\ IsGeneration(last') /\ last'.status # 200)
          => storage' = storage]_vars

\* C26: no step changes or removes what is stored: every generation that
\* succeeds writes to a path of its own, also when it has the prompt, the
\* identity and the clock second of an earlier one, on both servers.
C26_NeverOverwritten ==
    [][/\ \A b \in gcs_blobs : b \in gcs_blobs'
       /\ \A f \in local_files : f \in local_files']_vars

\* the characters between the kind prefix and the timestamp of a file name
SlugOf(filename, prefix, tail) ==
    SubSeq(filename, Len(prefix) + 1, Len(filename) - Len(tail))

\* prefix, slug of safe characters and bounded length, "_", timestamp, "_",
\* uuid prefix, ".ply"
WellFormedName(filename) ==
    \E prefix \in {mesh_, pointcloud_}, d \in 0..now.day, sec \in 0..now.sec,
       request_id \in RequestIds :
       \E tail \in {<<"_">> \o Timestamp([day |-> d, sec |-> sec])
                              \o <<"_", request_id>> \o dot_ply} :
          /\ StartsWith(filename, prefix)
          /\ EndsWith(filename, tail)
          /\ Len(filename) >= Len(prefix) + Len(tail)
          /\ Len(SlugOf(filename, prefix, tail)) <= SlugLen
          /\ \A i \in 1..Len(SlugOf(filename, prefix, tail)) :
                 IsSafeChar(SlugOf(filename, prefix, tail)[i])

\* C27: the file name of every artifact a generation stored is a slug of
\* letters, digits, blanks, hyphens and underscores of bounded length, then
\* the timestamp, a random suffix and the extension, for text and for image
\* requests.
C27_FilenameShape ==
    (IsGeneration(last) /\ last.success) => WellFormedName(last.filename)

\* the object was stored by a generation that ran under user_id: its name is
\* the storage path of that identity on some day
StoredUnder(name, user_id) ==
    \E d \in 0..now.day :
        name = get_storage_path(user_id, basename(name), [day |-> d, sec |-> 0])

\* C28: the listing of an identity holds only artifacts that generations
\* stored under that very identity, whatever text the other identities are.
C28_CatalogIsolation ==
    (last.op = "list" /\ last.status = 200)
        => \A i \in 1..Len(last.models) : StoredUnder(last.models[i].path, last.user_id)

====
